---- MODULE Spec2Model ----
(***************************************************************************)
(* The per-type asset table store (src/data-layer/main.py), the access     *)
(* service's batch-with-fallback call (service.py) and the DataLayerClient *)
(* pre-checks (data_layer_client.py).                                      *)
(*                                                                         *)
(* A table is the DataFrame kept in the S3 object data/{asset_type}.parquet*)
(* A row keeps asset_id, unique_id, name, created_at and updated_at; the   *)
(* columns description, metadata, tags and is_stale are written by the     *)
(* same statements as name and are carried by it.                          *)
(***************************************************************************)
EXTENDS Integers, Sequences, FiniteSets, TLC

\* ------------------------------------------------------------- bounds
MaxClock == 2
MaxRows == 2
MaxBatch == 2
MaxLimit == 3
MaxPage == 4
MaxListRows == 3

AssetTypes == {"ec2", "vpc"}
\* The asset type the requests of Spec address (a handler reads and writes
\* only the table of its own asset type).
StoreTypes == {"ec2"}
UniqueIds == {"i-1", "i-2"}
Names == {"new", "renamed"}

\* A missing value of a DataFrame cell (NaN): a text cell, a timestamp cell.
NaNText == "NaN"
NaNTime == 0 - 1

VARIABLES
    blobs,      \* asset type -> the S3 object data/{type}.parquet
    sidecars,   \* the asset ids with an S3 object metadata/{asset_id}.json
    clock,      \* the last value datetime.utcnow() returned
    last,       \* the request being answered: its arguments and its response
    remote,     \* asset type -> the table behind the client's /data/type/{type}
    call,       \* the DataLayerClient call being answered
    writers,    \* the store's write handlers running concurrently
    clients,    \* the access service process and the HTTP clients it created
    svc         \* the DataAccessService object: its _assets map, the call being answered

vars == <<blobs, sidecars, clock, last, remote, call, writers, clients, svc>>

clientVars == <<remote, call>>

storeVars == <<blobs, sidecars, clock, last>>

\* ------------------------------------------------------------ helpers
NoSuchKey == [exists |-> FALSE, rows |-> <<>>]

Stored(rows) == [exists |-> TRUE, rows |-> rows]

UniqueIdsOf(rows) == {rows[i].unique_id : i \in DOMAIN rows}

MinOf(S) == CHOOSE x \in S : \A y \in S : x <= y

RECURSIVE SumOver(_, _)
SumOver(f, S) == IF S = {} THEN 0 ELSE LET x == CHOOSE y \in S : TRUE IN f[x] + SumOver(f, S \ {x})

\* The rows kept in all tables together once table replaces asset_type's
\* (the model's cap on storage).
TotalRowsWith(asset_type, table) ==
    SumOver([t \in DOMAIN blobs |-> IF t = asset_type THEN Len(table.rows) ELSE Len(blobs[t].rows)],
            DOMAIN blobs)

SeqsUpTo(S, n) == UNION {[1..k -> S] : k \in 0..n}

\* The values successive datetime.utcnow() calls of one handler return.
NowSeqs(n) == {s \in [1..n -> clock..MaxClock] : \A i \in 1..n, j \in 1..n : i <= j => s[i] <= s[j]}

\* An AssetCreate body; valid is FALSE for a body pydantic rejects (422).
AssetCreate == [unique_id : UniqueIds, name : Names, valid : BOOLEAN]

ValidAssetCreate == {a \in AssetCreate : a.valid}

\* f"AssetType.{asset_type.value}_{asset.unique_id}"
AssetIdOf(asset_type, unique_id) == "AssetType." \o asset_type \o "_" \o unique_id

NewRow(asset_type, asset, created_at, updated_at) ==
    [asset_id |-> AssetIdOf(asset_type, asset.unique_id),
     unique_id |-> asset.unique_id,
     name |-> asset.name,
     created_at |-> created_at,
     updated_at |-> updated_at]

\* The response dictionary built from a row.
AssetOfRow(asset_type, row) ==
    [id |-> row.asset_id,
     asset_type |-> asset_type,
     unique_id |-> row.unique_id,
     name |-> row.name,
     created_at |-> row.created_at,
     updated_at |-> row.updated_at]

Response(status, table, sidecar, result) ==
    [status |-> status, table |-> table, sidecar |-> sidecar, result |-> result]

\* The keys of the metadata dictionary create_asset stores as
\* metadata/{asset_id}.json (one object per record).
SidecarKeys ==
    {"asset_id", "asset_type", "unique_id", "name", "description", "metadata",
     "tags", "is_stale", "created_at", "updated_at"}

\* No row_count is kept.
NoRowCount == 0 - 1

\* The row_count the store keeps for a table. Its handlers put the table blob
\* and, in create_asset, the record's sidecar; the AssetMetadata model that
\* has a row_count is used by no handler.
StoreRowCount(table) ==
    IF "row_count" \in SidecarKeys /\ table.exists THEN Len(table.rows) ELSE NoRowCount

\* ----------------------------------------------------- POST /assets/{type}
\* fault: the S3 call that raises in this request, if any.
CreateFaults == {"none", "put_metadata", "get", "put"}

create_asset(table, asset_type, asset, nows, fault) ==
    LET row == NewRow(asset_type, asset, nows[1], nows[2])
        df == Append(table.rows, row)
    IN  IF ~asset.valid THEN Response(422, table, {}, <<>>)
        ELSE IF fault = "put_metadata" THEN Response(500, table, {}, <<>>)
        ELSE IF fault \in {"get", "put"} THEN Response(500, table, {row.asset_id}, <<>>)
        ELSE Response(200, Stored(df), {row.asset_id}, <<AssetOfRow(asset_type, row)>>)

\* ------------------------------------------------------ GET /assets/{type}
ListFaults == {"none", "get"}

\* (mutant: skip counts the requested page too)
list_assets_by_type_SkipsPage(table, asset_type, page, limit, fault) ==
    LET total_count == Len(table.rows)
        skip == page * limit
        end_idx == IF skip + limit < total_count THEN skip + limit ELSE total_count
    IN  IF fault = "get" \/ ~table.exists THEN <<>>
        ELSE IF skip >= total_count THEN <<>>
        ELSE [i \in 1..(end_idx - skip) |-> AssetOfRow(asset_type, table.rows[skip + i])]

list_assets_by_type(table, asset_type, page, limit, fault) ==
    LET total_count == Len(table.rows)
        skip == (page - 1) * limit
        end_idx == IF skip + limit < total_count THEN skip + limit ELSE total_count
    IN  IF fault = "get" \/ ~table.exists THEN <<>>
        ELSE IF skip >= total_count THEN <<>>
        ELSE [i \in 1..(end_idx - skip) |-> AssetOfRow(asset_type, table.rows[skip + i])]

\* (mutant: a failed read of the object reaches the handler's outer except)
list_response_RaisesOnReadFailure(table, asset_type, page, limit, fault) ==
    IF fault = "get" THEN [status |-> 500, result |-> <<>>]
    ELSE [status |-> 200, result |-> list_assets_by_type(table, asset_type, page, limit, fault)]

\* The handler's answer: every exit of the inner try returns a list (the page,
\* or [] from both except clauses), so the outer except (500) is not reached
\* by a missing or unreadable object.
list_response(table, asset_type, page, limit, fault) ==
    [status |-> 200, result |-> list_assets_by_type(table, asset_type, page, limit, fault)]

\* ------------------------------------------------------------ GET /assets
\* The members of the AssetType enum this model keeps, in declaration order.
TypeOrder == <<"ec2", "vpc">>

\* "No asset_type query parameter" (asset_type: Optional[AssetType] = None).
NoFilter == "None"

\* The defaults of list_assets_by_type's page and limit parameters.
DefaultPage == 1
DefaultLimit == 100

\* The arguments of a call of list_assets_by_type made from Python instead of
\* through the route: the bearer token (a str), or the Query(...) object
\* that is the parameter's default (an int has kind "int").
Token == [kind |-> "str", value |-> 0]
QueryDefault(n) == [kind |-> "Query", value |-> n]

\* list_assets_by_type as a plain coroutine: `skip = (page - 1) * limit` sits
\* in the inner try, so with a page that is not a number it raises TypeError
\* there and `except Exception` returns []; a missing object returns []
\* before that line is reached.
list_assets_by_type_call(table, asset_type, page, limit, fault) ==
    IF fault = "get" \/ ~table.exists THEN <<>>
    ELSE IF page.kind # "int" \/ limit.kind # "int" THEN <<>>
    ELSE list_assets_by_type(table, asset_type, page.value, limit.value, fault)

\* The loop `for current_type in AssetType`: all_assets.extend(assets).
RECURSIVE ExtendEachType(_, _, _)
ExtendEachType(tables, faults, i) ==
    IF i > Len(TypeOrder) THEN <<>>
    ELSE list_assets_by_type_call(tables[TypeOrder[i]], TypeOrder[i], Token,
                                  QueryDefault(DefaultLimit), faults[i])
         \o ExtendEachType(tables, faults, i + 1)

\* list_all_assets calls list_assets_by_type(asset_type, token): the token is
\* the second positional argument, which is page; limit keeps its default.
list_all_assets(tables, asset_type, faults) ==
    [status |-> 200,
     result |-> IF asset_type # NoFilter
                THEN LET i == CHOOSE j \in DOMAIN TypeOrder : TypeOrder[j] = asset_type
                     IN  list_assets_by_type_call(tables[asset_type], asset_type, Token,
                                                  QueryDefault(DefaultLimit), faults[i])
                ELSE ExtendEachType(tables, faults, 1)]

\* ------------------------------------------------ POST /assets/{type}/batch
BatchFaults == {"none", "get", "put"}

\* (mutant: the update branch also stamps created_at)
UpdateExistingResetsCreatedAt(row, asset, now) ==
    [row EXCEPT !.name = asset.name, !.updated_at = now, !.created_at = now]

\* The assignments df.loc[existing_mask, column] = value of the update branch.
UpdateExisting(row, asset, now) == [row EXCEPT !.name = asset.name, !.updated_at = now]

\* The loop over batch.assets: df is the DataFrame, new_rows the response rows,
\* nows the value of datetime.utcnow() read for each asset.
RECURSIVE ProcessBatch(_, _, _, _, _)
ProcessBatch(df, new_rows, asset_type, assets, nows) ==
    IF assets = <<>> THEN [df |-> df, new_rows |-> new_rows]
    ELSE
        LET asset == Head(assets)
            now == Head(nows)
            existing_mask == {i \in DOMAIN df : df[i].unique_id = asset.unique_id}
        IN  IF Len(df) > 0 /\ existing_mask # {}
            THEN
                LET created_at == df[MinOf(existing_mask)].created_at
                    updated == [i \in DOMAIN df |->
                                   IF i \in existing_mask
                                   THEN UpdateExisting(df[i], asset, now)
                                   ELSE df[i]]
                IN  ProcessBatch(updated,
                                 Append(new_rows, NewRow(asset_type, asset, created_at, now)),
                                 asset_type, Tail(assets), Tail(nows))
            ELSE
                LET new_row == NewRow(asset_type, asset, now, now)
                IN  ProcessBatch(Append(df, new_row), Append(new_rows, new_row),
                                 asset_type, Tail(assets), Tail(nows))

\* df['unique_id'] on the DataFrame without columns that an absent (or empty)
\* object gives raises KeyError as soon as the loop body runs.
create_assets_batch(table, asset_type, assets, nows, fault) ==
    LET done == ProcessBatch(table.rows, <<>>, asset_type, assets, nows)
    IN  IF \E i \in DOMAIN assets : ~assets[i].valid THEN Response(422, table, {}, <<>>)
        ELSE IF fault = "get" THEN Response(500, table, {}, <<>>)
        ELSE IF table.rows = <<>> /\ assets # <<>> THEN Response(500, table, {}, <<>>)
        ELSE IF fault = "put" THEN Response(500, table, {}, <<>>)
        ELSE Response(200, Stored(done.df), {},
                      [i \in DOMAIN done.new_rows |-> AssetOfRow(asset_type, done.new_rows[i])])

\* ------------------------------------------------------ PUT /assets/{type}
\* A row of AssetUpdate.data: a dictionary with the keys unique_id and name.
\* In the DataFrame its other columns (asset_id, created_at, updated_at) are NaN.
UpdateRow == [unique_id : UniqueIds, name : Names]

RowOfDict(d) ==
    [asset_id |-> NaNText, unique_id |-> d.unique_id, name |-> d.name,
     created_at |-> NaNTime, updated_at |-> NaNTime]

NaNRow ==
    [asset_id |-> NaNText, unique_id |-> NaNText, name |-> NaNText,
     created_at |-> NaNTime, updated_at |-> NaNTime]

\* df.loc[mask] = row, row a Series indexed by column names. pandas aligns the
\* Series with the labels the mask selects: the build gives one of
\*   "aligned"  the masked rows take the values of row, column by column;
\*   "nan"      the masked rows become NaN (alignment on the row labels);
\*   "raise"    ValueError (a frame of several dtypes set column by column).
LocOutcomes == {"aligned", "nan", "raise"}

LocAssign(df, mask, row, loc) ==
    [i \in DOMAIN df |-> IF i \in mask THEN (IF loc = "aligned" THEN row ELSE NaNRow) ELSE df[i]]

RECURSIVE UpdateLoop(_, _, _)
UpdateLoop(df, data, loc) ==
    IF data = <<>> THEN [raised |-> FALSE, df |-> df]
    ELSE IF df = <<>> THEN [raised |-> TRUE, df |-> df]
    ELSE
        LET row == RowOfDict(Head(data))
            mask == {i \in DOMAIN df : df[i].unique_id = row.unique_id}
        IN  IF mask # {}
            THEN IF loc = "raise" THEN [raised |-> TRUE, df |-> df]
                 ELSE UpdateLoop(LocAssign(df, mask, row, loc), Tail(data), loc)
            ELSE UpdateLoop(Append(df, row), Tail(data), loc)

UpdateFaults == {"none", "get", "put"}

update_asset(table, asset_type, data, loc, fault) ==
    LET done == UpdateLoop(table.rows, data, loc)
    IN  IF fault = "get" THEN Response(500, table, {}, <<>>)
        ELSE IF done.raised THEN Response(500, table, {}, <<>>)
        ELSE IF fault = "put" THEN Response(500, table, {}, <<>>)
        ELSE Response(200, Stored(done.df), {}, <<>>)

\* ------------------------------------------------------------ requests
\* last: the request being answered. pre is the table the request found, nows
\* the values of datetime.utcnow() it read, loc the outcome of
\* df.loc[mask] = row in it; for the access service's batch call,
\* remote_status is the status of the remote batch call (0: no response) and
\* attempts the single creates of the fallback, in the order made.
Request(op, asset_type, input, pre, resp, nows, fault) ==
    [op |-> op, asset_type |-> asset_type, input |-> input, pre |-> pre,
     status |-> resp.status, result |-> resp.result, nows |-> nows,
     fault |-> fault, page |-> 0, limit |-> 0, loc |-> "none",
     remote_status |-> 0, attempts |-> <<>>]

Idle ==
    [op |-> "none", asset_type |-> "ec2", input |-> <<>>, pre |-> NoSuchKey,
     status |-> 0, result |-> <<>>, nows |-> <<>>, fault |-> "none",
     page |-> 0, limit |-> 0, loc |-> "none", remote_status |-> 0, attempts |-> <<>>]

\* ------------------------------------------------ the client's remote table
\* What GET /data/type/{type} answers before anything was written: an empty
\* row set.
EmptyRemote == [t \in AssetTypes |-> [rows |-> <<>>, row_count |-> 0]]

NoCall ==
    [op |-> "none", asset_type |-> "ec2", input |-> <<>>, pre |-> <<>>,
     error |-> "none", named |-> {}, writes |-> 0, result |-> <<>>]

\* ------------------------------------------------ concurrent write handlers
Writers == {1, 2}

\* A write handler of the store: pc is "idle", "read" (it holds the table it
\* read in df and has not written yet) or "done"; order tells how its write
\* fell with respect to the other handler's read (see WriterWrite).
IdleWriter ==
    [pc |-> "idle", op |-> "none", asset_type |-> "ec2", input |-> <<>>,
     df |-> NoSuchKey, nows |-> <<>>, status |-> 0, order |-> 0]

NoWriters == [w \in Writers |-> IdleWriter]

\* ------------------------------------------------ the access service process
\* An HTTP client: how often close() ran on it, the remote calls issued
\* through it, those of them issued after it was closed.
NewClient == [closes |-> 0, calls |-> 0, late |-> 0]

\* api.py builds the DataAccessService (and its AsyncClient) at import; no
\* Storage exists yet.
NoClients == [app |-> "running", service |-> NewClient, storage |-> <<>>]

\* ------------------------------------------- the access service's asset store
\* The attributes DataAccessService.__init__ assigns.
ServiceAttributes == {"data_layer_url", "data_layer_token", "client", "_assets"}

\* The fields of the Asset model (AssetBase and Asset) and those without a
\* default.
AssetFields ==
    {"asset_type", "unique_id", "name", "description", "metadata", "is_stale",
     "tags", "id", "created_at", "updated_at"}

AssetRequired == {"asset_type", "unique_id", "name", "id", "created_at", "updated_at"}

\* The fields of the AssetUpdate model.
AssetUpdateFields == {"name", "description", "metadata", "is_stale", "tags"}

\* The keyword arguments create_asset_in_service passes to Asset(...).
CreateKeywords ==
    {"id", "name", "description", "asset_type", "created_at", "updated_at",
     "storage_locations"}

\* A field of AssetUpdate left at its default, None.
NotSet == "<None>"

NoReturn ==
    [op |-> "none", asset_id |-> 0, arg |-> NotSet, pre |-> <<>>, status |-> 0,
     detail |-> "", result |-> <<>>, dl_calls |-> <<>>]

\* _assets is a dict: the stored assets in insertion order, keyed by id.
NewService == [assets |-> <<>>, ret |-> NoReturn]

Init ==
    /\ blobs = [t \in AssetTypes |-> NoSuchKey]
    /\ sidecars = {}
    /\ clock = 1
    /\ last = Idle
    /\ remote = EmptyRemote
    /\ call = NoCall
    /\ writers = NoWriters
    /\ clients = NoClients
    /\ svc = NewService

\* The store answers one request at a time; Respond hands the answer over.
Respond ==
    /\ last.op # "none"
    /\ last' = Idle
    /\ UNCHANGED <<blobs, sidecars, clock, remote, call, writers, clients, svc>>

CreateAssetWith(types, faults, bodies) ==
    /\ last.op = "none"
    /\ \E t \in types, asset \in bodies, nows \in NowSeqs(2), fault \in faults :
        LET resp == create_asset(blobs[t], t, asset, nows, fault)
        IN  /\ TotalRowsWith(t, resp.table) <= MaxRows
            /\ blobs' = [blobs EXCEPT ![t] = resp.table]
            /\ sidecars' = sidecars \cup resp.sidecar
            /\ clock' = IF resp.status = 200 THEN nows[2] ELSE clock
            /\ last' = Request("create", t, <<asset>>, blobs[t], resp, nows, fault)
            /\ UNCHANGED <<clientVars, writers, clients, svc>>

CreateAsset == CreateAssetWith(StoreTypes, {"none"}, ValidAssetCreate)

UpdateAssetWith(types, faults) ==
    /\ last.op = "none"
    /\ \E t \in types, data \in SeqsUpTo(UpdateRow, MaxBatch),
       loc \in LocOutcomes, fault \in faults :
        LET resp == update_asset(blobs[t], t, data, loc, fault)
        IN  /\ TotalRowsWith(t, resp.table) <= MaxRows
            /\ blobs' = [blobs EXCEPT ![t] = resp.table]
            /\ last' = [Request("update", t, data, blobs[t], resp, <<>>, fault)
                        EXCEPT !.loc = loc]
            /\ UNCHANGED <<sidecars, clock, remote, call, writers, clients, svc>>

UpdateAsset == UpdateAssetWith(StoreTypes, {"none"})

BatchCall(op, t, assets, nows, fault) ==
    LET resp == create_assets_batch(blobs[t], t, assets, nows, fault)
    IN  /\ TotalRowsWith(t, resp.table) <= MaxRows
        /\ blobs' = [blobs EXCEPT ![t] = resp.table]
        /\ clock' = IF resp.status = 200 /\ assets # <<>> THEN nows[Len(nows)] ELSE clock
        /\ last' = Request(op, t, assets, blobs[t], resp, nows, fault)
        /\ UNCHANGED <<sidecars, remote, call, writers, clients, svc>>

CreateAssetsBatchWith(types, faults, bodies) ==
    /\ last.op = "none"
    /\ \E t \in types, assets \in SeqsUpTo(bodies, MaxBatch), fault \in faults :
        \E nows \in NowSeqs(Len(assets)) :
            BatchCall("batch", t, assets, nows, fault)

CreateAssetsBatch == CreateAssetsBatchWith(StoreTypes, {"none"}, ValidAssetCreate)

\* The caller of a batch sends the same batch again, before any other
\* request reaches the store.
CreateAssetsBatchAgain ==
    /\ last.op = "batch"
    /\ \E nows \in NowSeqs(Len(last.input)) :
        BatchCall("batch_again", last.asset_type, last.input, nows, "none")

ListAssetsByTypeWith(types, faults) ==
    /\ last.op = "none"
    /\ \E t \in types, page \in 1..MaxPage, limit \in 1..MaxLimit, fault \in faults :
        LET resp == list_response(blobs[t], t, page, limit, fault)
        IN  /\ last' = [Request("list", t, <<>>, blobs[t], resp, <<>>, fault)
                        EXCEPT !.page = page, !.limit = limit]
            /\ UNCHANGED <<blobs, sidecars, clock, remote, call, writers, clients, svc>>

Next ==
    \/ CreateAsset
    \/ UpdateAsset
    \/ CreateAssetsBatch
    \/ CreateAssetsBatchAgain
    \/ Respond

Spec == Init /\ [][Next]_vars

\* ------------------------------------------------ listing: SpecList
\* The tables SpecList lists: up to MaxListRows rows that create_asset wrote.
ListedRows == {NewRow("ec2", a, 1, 1) : a \in ValidAssetCreate}

InitList ==
    /\ \E rows \in SeqsUpTo(ListedRows, MaxListRows) :
           /\ blobs = [t \in AssetTypes |-> IF t = "ec2" /\ rows # <<>> THEN Stored(rows) ELSE NoSuchKey]
           /\ sidecars = {rows[i].asset_id : i \in DOMAIN rows}
    /\ clock = 1
    /\ last = Idle
    /\ remote = EmptyRemote
    /\ call = NoCall
    /\ writers = NoWriters
    /\ clients = NoClients
    /\ svc = NewService

ListAssetsByType == ListAssetsByTypeWith(AssetTypes, {"none"})

NextList ==
    \/ ListAssetsByType
    \/ Respond

SpecList == InitList /\ [][NextList]_vars

\* ------------------- batches with rejected bodies and failing S3: SpecBatch
CreateAssetsBatchAny == CreateAssetsBatchWith(StoreTypes, BatchFaults, AssetCreate)

NextBatch ==
    \/ CreateAsset
    \/ CreateAssetsBatchAny
    \/ Respond

SpecBatch == Init /\ [][NextBatch]_vars

\* --------------------------------- creates with failing S3 calls: SpecCreate
CreateAssetFaulty == CreateAssetWith(StoreTypes, CreateFaults, ValidAssetCreate)

NextCreate ==
    \/ CreateAssetFaulty
    \/ Respond

SpecCreate == Init /\ [][NextCreate]_vars

\* ------------------------------- listing with failing reads: SpecListFaulty
ListAssetsByTypeFaulty == ListAssetsByTypeWith(AssetTypes, ListFaults)

NextListFaulty ==
    \/ ListAssetsByTypeFaulty
    \/ Respond

SpecListFaulty == InitList /\ [][NextListFaulty]_vars

\* --------------------------------------------- listing all types: SpecListAll
ListedRowsOf(t) == {NewRow(t, a, 1, 1) : a \in ValidAssetCreate}

\* Tables of both types, each of up to MaxRows rows that create_asset wrote
\* (so with distinct unique ids), or absent.
InitListAll ==
    /\ \E ec2 \in SeqsUpTo(ListedRowsOf("ec2"), MaxRows), vpc \in SeqsUpTo(ListedRowsOf("vpc"), MaxRows) :
           /\ Cardinality(UniqueIdsOf(ec2)) = Len(ec2)
           /\ Cardinality(UniqueIdsOf(vpc)) = Len(vpc)
           /\ blobs = [t \in AssetTypes |->
                          LET rows == IF t = "ec2" THEN ec2 ELSE vpc
                          IN  IF rows # <<>> THEN Stored(rows) ELSE NoSuchKey]
           /\ sidecars = {ec2[i].asset_id : i \in DOMAIN ec2} \cup {vpc[i].asset_id : i \in DOMAIN vpc}
    /\ clock = 1
    /\ last = Idle
    /\ remote = EmptyRemote
    /\ call = NoCall
    /\ writers = NoWriters
    /\ clients = NoClients
    /\ svc = NewService

\* GET /assets; input holds, per type in TypeOrder, how the read of its
\* object went.
ListAllAssets ==
    /\ last.op = "none"
    /\ \E asset_type \in AssetTypes \cup {NoFilter}, faults \in [DOMAIN TypeOrder -> ListFaults] :
        LET resp == list_all_assets(blobs, asset_type, faults)
        IN  /\ last' = Request("list_all", asset_type, faults, NoSuchKey, resp, <<>>, "none")
            /\ UNCHANGED <<blobs, sidecars, clock, remote, call, writers, clients, svc>>

NextListAll ==
    \/ ListAllAssets
    \/ Respond

SpecListAll == InitListAll /\ [][NextListAll]_vars

\* ------------------------- DataAccessService.create_assets_batch: SpecService
\* A key the caller's dictionary does not carry.
Missing == "<missing>"

\* asset.get("name", ""): the default when the key is absent.
NameDefault == ""

\* The dictionaries callers hand to the service: any may lack the name key,
\* any may carry a value pydantic rejects.
ServiceAssets == [unique_id : UniqueIds, name : {"new", Missing}, valid : BOOLEAN]

\* The body the batch endpoint validates for one dictionary, posted as it is:
\* AssetCreate requires name.
PostedAsset(asset) == [asset EXCEPT !.valid = asset.valid /\ asset.name # Missing]

\* The dictionary the fallback posts for one asset: each key read with
\* asset.get(key, default), so an absent name becomes "". A value pydantic
\* rejects stays as it is.
FormattedAsset(asset) ==
    [unique_id |-> asset.unique_id,
     name |-> IF asset.name = Missing THEN NameDefault ELSE asset.name,
     valid |-> asset.valid]

\* The batch posted to the store for a list of dictionaries.
RECURSIVE PostedBatch(_)
PostedBatch(assets) ==
    IF assets = <<>> THEN <<>> ELSE <<PostedAsset(Head(assets))>> \o PostedBatch(Tail(assets))

\* (mutant: the first failed create ends the loop)
RemainingAfterStopsOnFailure(status, rest) == IF status = 200 THEN rest ELSE <<>>

\* The assets the loop still goes through after one create answered status:
\* the except clause logs the failure and the loop goes on.
RemainingAfter(status, rest) == rest

\* The fallback loop: one POST /assets/{type} per asset, in order. acc keeps
\* the table, the sidecars written, created_assets and the attempts made.
RECURSIVE Fallback(_, _, _, _, _)
Fallback(asset_type, assets, nows, faults, acc) ==
    IF assets = <<>> THEN acc
    ELSE
        LET formatted_asset == FormattedAsset(Head(assets))
            resp == create_asset(acc.table, asset_type, formatted_asset,
                                 <<Head(nows), Head(nows)>>, Head(faults))
            next == [table |-> resp.table,
                     sidecar |-> acc.sidecar \cup resp.sidecar,
                     created_assets |-> IF resp.status = 200
                                        THEN acc.created_assets \o resp.result
                                        ELSE acc.created_assets,
                     attempts |-> Append(acc.attempts,
                                         [asset |-> formatted_asset, status |-> resp.status])]
        IN  Fallback(asset_type, RemainingAfter(resp.status, Tail(assets)),
                     Tail(nows), Tail(faults), next)

\* transport: "ok" when the batch call got an answer, "error" when httpx
\* raised without one (the request did not reach the store).
Transports == {"ok", "error"}

AttemptFaults == {"none", "get"}

\* (mutant: a transport failure of the batch call starts the fallback too)
service_create_assets_batch_FallsBackOnTransport(table, asset_type, assets, nows, transport, fault, faults) ==
    LET batch == create_assets_batch(table, asset_type, PostedBatch(assets), nows, fault)
        fallen == Fallback(asset_type, assets, nows, faults,
                           [table |-> table, sidecar |-> {}, created_assets |-> <<>>,
                            attempts |-> <<>>])
    IN  IF transport = "ok" /\ batch.status = 200
        THEN [status |-> 200, table |-> batch.table, sidecar |-> {}, result |-> batch.result,
              remote_status |-> 200, attempts |-> <<>>]
        ELSE [status |-> 200, table |-> fallen.table, sidecar |-> fallen.sidecar,
              result |-> fallen.created_assets,
              remote_status |-> IF transport = "ok" THEN batch.status ELSE 0,
              attempts |-> fallen.attempts]

\* The batch call first; except httpx.HTTPStatusError starts the fallback,
\* which returns its list whatever it holds; any other exception (a
\* transport failure) reaches except Exception and is raised as 500.
service_create_assets_batch(table, asset_type, assets, nows, transport, fault, faults) ==
    LET batch == create_assets_batch(table, asset_type, PostedBatch(assets), nows, fault)
        fallen == Fallback(asset_type, assets, nows, faults,
                           [table |-> table, sidecar |-> {}, created_assets |-> <<>>,
                            attempts |-> <<>>])
    IN  IF transport = "error"
        THEN [status |-> 500, table |-> table, sidecar |-> {}, result |-> <<>>,
              remote_status |-> 0, attempts |-> <<>>]
        ELSE IF batch.status = 200
        THEN [status |-> 200, table |-> batch.table, sidecar |-> {}, result |-> batch.result,
              remote_status |-> 200, attempts |-> <<>>]
        ELSE [status |-> 200, table |-> fallen.table, sidecar |-> fallen.sidecar,
              result |-> fallen.created_assets, remote_status |-> batch.status,
              attempts |-> fallen.attempts]

ServiceCreateAssetsBatch ==
    /\ last.op = "none"
    /\ \E t \in StoreTypes, assets \in SeqsUpTo(ServiceAssets, MaxBatch),
       transport \in Transports, fault \in {"none", "get"} :
        \E nows \in NowSeqs(Len(assets)), faults \in [1..Len(assets) -> AttemptFaults] :
            LET resp == service_create_assets_batch(blobs[t], t, assets, nows,
                                                    transport, fault, faults)
            IN  /\ TotalRowsWith(t, resp.table) <= MaxRows
                /\ blobs' = [blobs EXCEPT ![t] = resp.table]
                /\ sidecars' = sidecars \cup resp.sidecar
                /\ clock' = IF resp.table # blobs[t] /\ assets # <<>>
                            THEN nows[Len(nows)] ELSE clock
                /\ last' = [Request("service_batch", t, assets, blobs[t], resp, nows, fault)
                            EXCEPT !.remote_status = resp.remote_status,
                                   !.attempts = resp.attempts]
                /\ UNCHANGED <<clientVars, writers, clients, svc>>

NextService ==
    \/ CreateAsset
    \/ ServiceCreateAssetsBatch
    \/ Respond

SpecService == Init /\ [][NextService]_vars

\* ------------------------------------------- DataLayerClient: SpecClient
MaxRemoteRows == 3

\* A cell of a record the client handles: a string, or a dictionary whose
\* JSON text is text.
ClientValues == {[kind |-> "str", text |-> "a"], [kind |-> "dict", text |-> "{}"]}

ClientRecords == [UniqueId : UniqueIds, value : ClientValues]

ClientNaNRow == [UniqueId |-> NaNText, value |-> [kind |-> "nan", text |-> NaNText]]

ClientIdsOf(rows) == {rows[i].UniqueId : i \in DOMAIN rows}

ClientFaults == {"none", "read", "write"}

\* One cell of an object column as write_assets uploads it: json.dumps(x)
\* for a dictionary, str(x) for anything else (str(nan) is "nan").
ToCsvCell(x) ==
    IF x.kind = "dict" THEN [kind |-> "str", text |-> x.text]
    ELSE IF x.kind = "nan" THEN [kind |-> "str", text |-> "nan"]
    ELSE [kind |-> "str", text |-> x.text]

ToCsvText(x) == IF x = NaNText THEN "nan" ELSE x

\* GET /data/type/{asset_type}: the records of the table, or the exception
\* of a failed call re-raised.
read_assets(table, fault) ==
    IF fault = "read" THEN [raised |-> TRUE, df |-> <<>>]
    ELSE [raised |-> FALSE, df |-> table.rows]

\* POST /data/type/{asset_type}: the records as CSV with their metadata. A
\* rejected upload raises and leaves the table as it was.
write_assets(table, assets, fault) ==
    LET df == [i \in DOMAIN assets |->
                   [UniqueId |-> ToCsvText(assets[i].UniqueId),
                    value |-> ToCsvCell(assets[i].value)]]
    IN  IF fault = "write" THEN [raised |-> TRUE, table |-> table]
        ELSE [raised |-> FALSE, table |-> [rows |-> df, row_count |-> Len(df)]]

ClientResult(error, named, writes, table, result) ==
    [error |-> error, named |-> named, writes |-> writes, table |-> table, result |-> result]

\* (mutant: the error names one duplicate, not all of them)
duplicate_ids_single(new_ids, existing_ids) ==
    IF new_ids \cap existing_ids = {} THEN {}
    ELSE {CHOOSE u \in new_ids \cap existing_ids : TRUE}

\* set(new_df['UniqueId']) & set(existing_df['UniqueId'])
duplicate_ids(new_ids, existing_ids) == new_ids \cap existing_ids

batch_create_assets(table, assets, fault) ==
    LET existing == read_assets(table, fault)
        dups == IF existing.df # <<>> /\ assets # <<>>
                THEN duplicate_ids(ClientIdsOf(assets), ClientIdsOf(existing.df))
                ELSE {}
        combined == IF existing.df = <<>> THEN assets
                    ELSE IF assets = <<>> THEN existing.df
                    ELSE existing.df \o assets
        written == write_assets(table, combined, fault)
    IN  IF existing.raised THEN ClientResult("read", {}, 0, table, <<>>)
        ELSE IF dups # {} THEN ClientResult("duplicate", dups, 0, table, <<>>)
        ELSE IF written.raised THEN ClientResult("write", {}, 1, table, <<>>)
        ELSE ClientResult("none", {}, 1, written.table, assets)

ClientLocAssign(df, mask, row, loc) ==
    [i \in DOMAIN df |-> IF i \in mask THEN (IF loc = "aligned" THEN row ELSE ClientNaNRow)
                         ELSE df[i]]

\* for idx, row in update_df.iterrows(): existing_df.loc[... == row['UniqueId']] = row
RECURSIVE ClientUpdateLoop(_, _, _)
ClientUpdateLoop(df, updates, loc) ==
    IF updates = <<>> THEN [raised |-> FALSE, df |-> df]
    ELSE
        LET row == Head(updates)
            hit == {i \in DOMAIN df : df[i].UniqueId = row.UniqueId}
        IN  IF hit # {} /\ loc = "raise" THEN [raised |-> TRUE, df |-> df]
            ELSE ClientUpdateLoop(ClientLocAssign(df, hit, row, loc), Tail(updates), loc)

RECURSIVE SelectRows(_, _, _)
SelectRows(df, keep, i) ==
    IF i > Len(df) THEN <<>>
    ELSE (IF i \in keep THEN <<df[i]>> ELSE <<>>) \o SelectRows(df, keep, i + 1)

batch_update_assets(table, updates, loc, fault) ==
    LET existing == read_assets(table, fault)
        existing_df == existing.df
        missing_ids == IF existing_df # <<>> /\ updates # <<>>
                       THEN ClientIdsOf(updates) \ ClientIdsOf(existing_df)
                       ELSE {}
        mask == {i \in DOMAIN existing_df : existing_df[i].UniqueId \in ClientIdsOf(updates)}
        non_matching_df == SelectRows(existing_df, DOMAIN existing_df \ mask, 1)
        looped == ClientUpdateLoop(existing_df, updates, loc)
        combined_df == non_matching_df \o SelectRows(looped.df, mask, 1)
        written == write_assets(table, combined_df, fault)
    IN  IF existing.raised THEN ClientResult("read", {}, 0, table, <<>>)
        ELSE IF missing_ids # {} THEN ClientResult("not_found", missing_ids, 0, table, <<>>)
        ELSE IF existing_df = <<>> THEN ClientResult("none", {}, 0, table, updates)
        ELSE IF updates = <<>> THEN ClientResult("none", {}, 0, table, <<>>)
        ELSE IF looped.raised THEN ClientResult("loc", {}, 0, table, <<>>)
        ELSE IF written.raised THEN ClientResult("write", {}, 1, table, <<>>)
        ELSE ClientResult("none", {}, 1, written.table, updates)

\* existing_df['UniqueId'] on the frame without columns that an empty table
\* gives raises KeyError; only the missing-id check is skipped for it.
batch_delete_assets(table, asset_ids, fault) ==
    LET existing == read_assets(table, fault)
        existing_df == existing.df
        ids == {asset_ids[i] : i \in DOMAIN asset_ids}
        missing_ids == IF existing_df # <<>> THEN ids \ ClientIdsOf(existing_df) ELSE {}
        remaining_df == SelectRows(existing_df,
                                   {i \in DOMAIN existing_df : existing_df[i].UniqueId \notin ids}, 1)
        written == write_assets(table, remaining_df, fault)
    IN  IF existing.raised THEN ClientResult("read", {}, 0, table, <<>>)
        ELSE IF missing_ids # {} THEN ClientResult("not_found", missing_ids, 0, table, <<>>)
        ELSE IF existing_df = <<>> THEN ClientResult("key_error", {}, 0, table, <<>>)
        ELSE IF written.raised THEN ClientResult("write", {}, 1, table, <<>>)
        ELSE ClientResult("none", {}, 1, written.table, asset_ids)

ClientCall(op, t, input, res) ==
    /\ Len(res.table.rows) <= MaxRemoteRows
    /\ remote' = [remote EXCEPT ![t] = res.table]
    /\ call' = [op |-> op, asset_type |-> t, input |-> input, pre |-> remote[t].rows,
                error |-> res.error, named |-> res.named, writes |-> res.writes,
                result |-> res.result]
    /\ UNCHANGED <<storeVars, writers, clients, svc>>

BatchCreateAssets ==
    /\ call.op = "none"
    /\ \E t \in StoreTypes, assets \in SeqsUpTo(ClientRecords, MaxBatch), fault \in ClientFaults :
        ClientCall("batch_create", t, assets, batch_create_assets(remote[t], assets, fault))

BatchUpdateAssets ==
    /\ call.op = "none"
    /\ \E t \in StoreTypes, updates \in SeqsUpTo(ClientRecords, MaxBatch),
          loc \in LocOutcomes, fault \in ClientFaults :
        ClientCall("batch_update", t, updates,
                   batch_update_assets(remote[t], updates, loc, fault))

BatchDeleteAssets ==
    /\ call.op = "none"
    /\ \E t \in StoreTypes, asset_ids \in SeqsUpTo(UniqueIds, MaxBatch), fault \in ClientFaults :
        ClientCall("batch_delete", t, asset_ids, batch_delete_assets(remote[t], asset_ids, fault))

\* The call returns (or raises) to its caller.
ClientReturn ==
    /\ call.op # "none"
    /\ call' = NoCall
    /\ UNCHANGED <<remote, blobs, sidecars, clock, last, writers, clients, svc>>

NextClient ==
    \/ BatchCreateAssets
    \/ BatchUpdateAssets
    \/ BatchDeleteAssets
    \/ ClientReturn

SpecClient == Init /\ [][NextClient]_vars

\* --------------------------------- two write handlers at once: SpecRace
\* The bodies the concurrent handlers receive.
RaceBodies == {a \in ValidAssetCreate : a.name = "new"}

\* (mutant: the write starts from the table as stored at the time of the put)
BaseOfWriteRereads(read_df, stored) == stored

\* The DataFrame a handler's put_object body is built from: the one the
\* handler read with get_object, whatever the object holds by now (the put
\* carries no version, no condition and runs under no lock).
BaseOfWrite(read_df, stored) == read_df

WriterResponse(wr, stored) ==
    IF wr.op = "create"
    THEN create_asset(BaseOfWrite(wr.df, stored), wr.asset_type, wr.input[1], wr.nows, "none")
    ELSE create_assets_batch(BaseOfWrite(wr.df, stored), wr.asset_type, wr.input, wr.nows, "none")

\* A handler starts and runs up to its get_object: create_asset has put the
\* metadata sidecar by then.
WriterRead(w) ==
    /\ writers[w].pc = "idle"
    /\ \E t \in AssetTypes, op \in {"create", "batch"}, assets \in SeqsUpTo(RaceBodies, MaxBatch) :
        /\ op = "create" => Len(assets) = 1
        /\ writers' = [writers EXCEPT ![w] =
                          [pc |-> "read", op |-> op, asset_type |-> t, input |-> assets,
                           df |-> blobs[t],
                           nows |-> [i \in 1..(IF op = "create" THEN 2 ELSE Len(assets)) |-> clock],
                           status |-> 0, order |-> 0]]
        /\ sidecars' = IF op = "create"
                       THEN sidecars \cup {AssetIdOf(t, assets[1].unique_id)}
                       ELSE sidecars
    /\ UNCHANGED <<blobs, clock, last, remote, call, clients, svc>>

\* The handler goes on from its DataFrame to put_object and its response.
\* order is 1 when the other handler holds a table it read and has not yet
\* written, 2 when the other handler wrote in that way before.
WriterWrite(w) ==
    LET wr == writers[w]
        other == writers[CHOOSE v \in Writers : v # w]
        resp == WriterResponse(wr, blobs[wr.asset_type])
    IN  /\ wr.pc = "read"
        /\ resp.status = 200 => TotalRowsWith(wr.asset_type, resp.table) <= MaxRows
        /\ blobs' = IF resp.status = 200
                    THEN [blobs EXCEPT ![wr.asset_type] = resp.table]
                    ELSE blobs
        /\ writers' = [writers EXCEPT ![w] =
                          [wr EXCEPT !.pc = "done", !.status = resp.status,
                                     !.order = IF other.pc = "read" THEN 1
                                               ELSE IF other.pc = "done" /\ other.order = 1 THEN 2
                                               ELSE 0]]
        /\ UNCHANGED <<sidecars, clock, last, remote, call, clients, svc>>

\* Both responses were delivered; the handlers are free again.
WritersReturn ==
    /\ \A w \in Writers : writers[w].pc = "done"
    /\ writers' = NoWriters
    /\ UNCHANGED <<blobs, sidecars, clock, last, remote, call, clients, svc>>

NextRace ==
    \/ \E w \in Writers : WriterRead(w)
    \/ \E w \in Writers : WriterWrite(w)
    \/ WritersReturn

SpecRace == Init /\ [][NextRace]_vars

\* ------------------------------ the access service's clients: SpecLife
MaxCalls == 3
MaxStorages == 2

\* One remote call through a client; late counts the calls issued after
\* close() ran on it.
Called(client) ==
    [client EXCEPT !.calls = @ + 1, !.late = IF client.closes > 0 THEN @ + 1 ELSE @]

\* close() / aclose() on a client.
Closed(client) == [client EXCEPT !.closes = @ + 1]

\* Storage.__init__: a Storage builds a DataLayerClient of its own.
NewStorage ==
    /\ clients.app = "running"
    /\ Len(clients.storage) < MaxStorages
    /\ clients' = [clients EXCEPT !.storage = Append(@, NewClient)]
    /\ UNCHANGED <<blobs, sidecars, clock, last, remote, call, writers, svc>>

\* A request handled by the service issues a call through self.client.
ServiceCall ==
    /\ clients.app = "running"
    /\ clients.service.calls < MaxCalls
    /\ clients' = [clients EXCEPT !.service = Called(@)]
    /\ UNCHANGED <<blobs, sidecars, clock, last, remote, call, writers, svc>>

\* A Storage method issues a call through its data_layer_client.
StorageCall ==
    /\ clients.app = "running"
    /\ \E i \in DOMAIN clients.storage :
        /\ clients.storage[i].calls < MaxCalls
        /\ clients' = [clients EXCEPT !.storage[i] = Called(@)]
    /\ UNCHANGED <<blobs, sidecars, clock, last, remote, call, writers, svc>>

\* shutdown_event: await service.close(), which closes the service's
\* AsyncClient. Storage has no close and nothing closes its client.
Shutdown ==
    /\ clients.app = "running"
    /\ clients' = [clients EXCEPT !.app = "stopped", !.service = Closed(@)]
    /\ UNCHANGED <<blobs, sidecars, clock, last, remote, call, writers, svc>>

NextLife ==
    \/ NewStorage
    \/ ServiceCall
    \/ StorageCall
    \/ Shutdown

SpecLife == Init /\ [][NextLife]_vars

\* ------------------------------- the access service's asset store: SpecAccess
MaxAssets == 2

\* The keys of _assets in use.
AssetIdRange == 1..(MaxAssets + 1)

Descriptions == {"d", "d2"}

\* An Asset object, by the fields the store's methods read and write.
StoredAssets ==
    [id : AssetIdRange, asset_type : AssetTypes, name : Names,
     description : Descriptions, created_at : {1}, updated_at : {1}]

\* The body of a create: AssetCreate(name, description, asset_type, ...).
ServiceAssetCreate == [name : {"new"}, description : {"d"}, asset_type : AssetTypes]

\* The body of an update: AssetUpdate(name=..., description=...).
ServiceAssetUpdate == [name : {NotSet, "renamed"}, description : {NotSet, "d2"}]

\* How a call of the data layer goes, where one is made.
DataLayerFaults == {"none", "error"}

AssetStoreIds(assets) == {assets[i].id : i \in DOMAIN assets}

\* `asset_id in self._assets`
InAssets(assets, asset_id) == asset_id \in AssetStoreIds(assets)

IndexOfAsset(assets, asset_id) == CHOOSE i \in DOMAIN assets : assets[i].id = asset_id

\* `del self._assets[asset_id]`
WithoutAsset(assets, asset_id) == SelectSeq(assets, LAMBDA a : a.id # asset_id)

\* `self._assets[key] = asset`: a key already there keeps its place.
PutAsset(assets, asset) ==
    IF InAssets(assets, asset.id)
    THEN [assets EXCEPT ![IndexOfAsset(assets, asset.id)] = asset]
    ELSE Append(assets, asset)

\* s3_key=f"data/{data_layer_id}.parquet" and
\* s3_key.split('/')[-1].replace('.parquet', ''), over keys kept as the list
\* of their '/'-separated parts with the suffix apart.
S3KeyOf(data_layer_id) == [parts |-> <<"data", data_layer_id>>, suffix |-> ".parquet"]

DataLayerIdOf(s3_key) == s3_key.parts[Len(s3_key.parts)]

ServiceResult(status, detail, assets, result, dl_calls) ==
    [status |-> status, detail |-> detail, assets |-> assets, result |-> result,
     dl_calls |-> dl_calls]

NotFound(assets) == ServiceResult(404, "Asset not found", assets, <<>>, <<>>)

\* create_asset_in_service: self.data_layer is read first (AttributeError when
\* __init__ assigned no such attribute), then Asset(...) is validated
\* (ValidationError when a required field is not among the keywords); every
\* exception becomes HTTPException(500).
create_asset_in_service(assets, asset, data_layer_id, now, fault) ==
    IF "data_layer" \notin ServiceAttributes
    THEN ServiceResult(500, "AttributeError", assets, <<>>, <<>>)
    ELSE LET dl_calls == <<[method |-> "create_asset", id |-> asset.asset_type]>>
             new_asset == [id |-> Len(assets) + 1, asset_type |-> asset.asset_type,
                           name |-> asset.name, description |-> asset.description,
                           created_at |-> now, updated_at |-> now,
                           storage_locations |-> <<[s3_key |-> S3KeyOf(data_layer_id)]>>]
         IN  IF fault = "error"
             THEN ServiceResult(500, "data layer error", assets, <<>>, dl_calls)
             ELSE IF ~(AssetRequired \subseteq CreateKeywords)
             THEN ServiceResult(500, "ValidationError", assets, <<>>, dl_calls)
             ELSE ServiceResult(200, "", PutAsset(assets, new_asset), <<new_asset>>, dl_calls)

\* (mutant: the membership test is missing, the lookup raises KeyError)
get_asset_in_service_Unchecked(assets, asset_id) ==
    IF ~InAssets(assets, asset_id) THEN ServiceResult(500, "KeyError", assets, <<>>, <<>>)
    ELSE ServiceResult(200, "", assets, <<assets[IndexOfAsset(assets, asset_id)]>>, <<>>)

get_asset_in_service(assets, asset_id) ==
    IF ~InAssets(assets, asset_id) THEN NotFound(assets)
    ELSE ServiceResult(200, "", assets, <<assets[IndexOfAsset(assets, asset_id)]>>, <<>>)

\* update_asset_in_service: name and description are assigned on the stored
\* object, then asset_update.asset_type is read outside any try (AttributeError
\* when AssetUpdate has no such field, raised to the caller).
update_asset_in_service(assets, asset_id, asset_update, now) ==
    IF ~InAssets(assets, asset_id) THEN NotFound(assets)
    ELSE LET i == IndexOfAsset(assets, asset_id)
             named == IF asset_update.name # NotSet
                      THEN [assets[i] EXCEPT !.name = asset_update.name] ELSE assets[i]
             described == IF asset_update.description # NotSet
                          THEN [named EXCEPT !.description = asset_update.description]
                          ELSE named
         IN  IF "asset_type" \notin AssetUpdateFields
             THEN ServiceResult(500, "AttributeError", [assets EXCEPT ![i] = described], <<>>, <<>>)
             ELSE LET typed == IF asset_update.asset_type # NotSet
                               THEN [described EXCEPT !.asset_type = asset_update.asset_type]
                               ELSE described
                      asset == [typed EXCEPT !.updated_at = now]
                  IN  ServiceResult(200, "", [assets EXCEPT ![i] = asset], <<asset>>, <<>>)

\* The common body of delete, store-data and get-data: the membership test,
\* then, inside the try, storage_locations[0] of the stored Asset
\* (AttributeError when Asset has no such field), the data-layer id, and the
\* call through self.data_layer.
WithDataLayer(assets, asset_id, method, fault, after) ==
    IF ~InAssets(assets, asset_id) THEN NotFound(assets)
    ELSE IF "storage_locations" \notin AssetFields \/ "data_layer" \notin ServiceAttributes
    THEN ServiceResult(500, "AttributeError", assets, <<>>, <<>>)
    ELSE LET storage_location == assets[IndexOfAsset(assets, asset_id)].storage_locations[1]
             dl_calls == <<[method |-> method, id |-> DataLayerIdOf(storage_location.s3_key)]>>
         IN  IF fault = "error"
             THEN ServiceResult(500, "data layer error", assets, <<>>, dl_calls)
             ELSE ServiceResult(200, "", after, <<>>, dl_calls)

delete_asset_in_service(assets, asset_id, fault) ==
    WithDataLayer(assets, asset_id, "delete_asset", fault, WithoutAsset(assets, asset_id))

store_asset_data_in_service(assets, asset_id, fault) ==
    WithDataLayer(assets, asset_id, "update_asset", fault, assets)

get_asset_data_in_service(assets, asset_id, fault) ==
    WithDataLayer(assets, asset_id, "get_asset", fault, assets)

\* (mutant: the type filter is not applied)
list_assets_in_service_Unfiltered(assets, asset_type) ==
    ServiceResult(200, "", assets, assets, <<>>)

list_assets_in_service(assets, asset_type) ==
    ServiceResult(200, "",  assets,
                  IF asset_type # NoFilter
                  THEN SelectSeq(assets, LAMBDA a : a.asset_type = asset_type)
                  ELSE assets,
                  <<>>)

ServiceCallOf(op, asset_id, arg, res) ==
    svc' = [assets |-> res.assets,
            ret |-> [op |-> op, asset_id |-> asset_id, arg |-> arg, pre |-> svc.assets,
                     status |-> res.status, detail |-> res.detail,
                     result |-> res.result, dl_calls |-> res.dl_calls]]

\* `service._assets[1] = sample_ec2_asset`: a caller puts an Asset into the
\* map under its id.
StoreAsset ==
    /\ svc.ret.op = "none"
    /\ Len(svc.assets) < MaxAssets
    /\ \E asset \in StoredAssets :
        /\ ~InAssets(svc.assets, asset.id)
        /\ asset.description = "d"
        /\ svc' = [svc EXCEPT !.assets = PutAsset(@, asset)]
    /\ UNCHANGED <<blobs, sidecars, clock, last, remote, call, writers, clients>>

CreateAssetInService ==
    /\ svc.ret.op = "none"
    /\ \E asset \in ServiceAssetCreate, fault \in DataLayerFaults :
        ServiceCallOf("create", 0, asset,
                      create_asset_in_service(svc.assets, asset, "asset_123", clock, fault))
    /\ UNCHANGED <<blobs, sidecars, clock, last, remote, call, writers, clients>>

GetAssetInService ==
    /\ svc.ret.op = "none"
    /\ \E asset_id \in AssetIdRange :
        ServiceCallOf("get", asset_id, NotSet, get_asset_in_service(svc.assets, asset_id))
    /\ UNCHANGED <<blobs, sidecars, clock, last, remote, call, writers, clients>>

UpdateAssetInService ==
    /\ svc.ret.op = "none"
    /\ \E asset_id \in AssetIdRange, asset_update \in ServiceAssetUpdate, now \in clock..MaxClock :
        ServiceCallOf("update", asset_id,
                      [name |-> asset_update.name, description |-> asset_update.description,
                       now |-> now],
                      update_asset_in_service(svc.assets, asset_id, asset_update, now))
    /\ UNCHANGED <<blobs, sidecars, clock, last, remote, call, writers, clients>>

DeleteAssetInService ==
    /\ svc.ret.op = "none"
    /\ \E asset_id \in AssetIdRange, fault \in DataLayerFaults :
        ServiceCallOf("delete", asset_id, NotSet,
                      delete_asset_in_service(svc.assets, asset_id, fault))
    /\ UNCHANGED <<blobs, sidecars, clock, last, remote, call, writers, clients>>

ListAssetsInService ==
    /\ svc.ret.op = "none"
    /\ \E asset_type \in AssetTypes \cup {NoFilter} :
        ServiceCallOf("list", 0, asset_type, list_assets_in_service(svc.assets, asset_type))
    /\ UNCHANGED <<blobs, sidecars, clock, last, remote, call, writers, clients>>

StoreAssetDataInService ==
    /\ svc.ret.op = "none"
    /\ \E asset_id \in AssetIdRange, fault \in DataLayerFaults :
        ServiceCallOf("store_data", asset_id, NotSet,
                      store_asset_data_in_service(svc.assets, asset_id, fault))
    /\ UNCHANGED <<blobs, sidecars, clock, last, remote, call, writers, clients>>

GetAssetDataInService ==
    /\ svc.ret.op = "none"
    /\ \E asset_id \in AssetIdRange, fault \in DataLayerFaults :
        ServiceCallOf("get_data", asset_id, NotSet,
                      get_asset_data_in_service(svc.assets, asset_id, fault))
    /\ UNCHANGED <<blobs, sidecars, clock, last, remote, call, writers, clients>>

ServiceReturn ==
    /\ svc.ret.op # "none"
    /\ svc' = [svc EXCEPT !.ret = NoReturn]
    /\ UNCHANGED <<blobs, sidecars, clock, last, remote, call, writers, clients>>

NextAccess ==
    \/ StoreAsset
    \/ CreateAssetInService
    \/ GetAssetInService
    \/ UpdateAssetInService
    \/ DeleteAssetInService
    \/ ListAssetsInService
    \/ StoreAssetDataInService
    \/ GetAssetDataInService
    \/ ServiceReturn

SpecAccess == Init /\ [][NextAccess]_vars

\* ============================================================ claims
\* The table the last request found and the table it left.
PreRows == last.pre.rows

PostRows == blobs[last.asset_type].rows

InputIds == {last.input[i].unique_id : i \in DOMAIN last.input}

\* The name the last input record with unique id u carries.
LastNameFor(u) ==
    last.input[CHOOSE i \in DOMAIN last.input :
                   /\ last.input[i].unique_id = u
                   /\ \A j \in DOMAIN last.input : last.input[j].unique_id = u => j <= i].name

\* The times at which the last request wrote.
WriteTimes == {last.nows[i] : i \in DOMAIN last.nows} \cup {clock}

\* C1: a create whose unique_id is already in the table fails with Conflict
\* (409) and leaves the table as it was, so no two rows share a unique_id.
C1_CreateConflict ==
    (last.op = "create" /\ last.input[1].unique_id \in UniqueIdsOf(PreRows))
        => (last.status = 409 /\ blobs[last.asset_type] = last.pre)

\* C2: the same batch sent twice in a row leaves, after the second call, the
\* rows the first call left: as many, each equal but for updated_at (so with
\* the same created_at).
C2_UpsertIdempotent ==
    last.op = "batch_again"
        => /\ Len(PostRows) = Len(PreRows)
           /\ blobs[last.asset_type].exists = last.pre.exists
           /\ \A i \in DOMAIN PreRows :
                  [PostRows[i] EXCEPT !.updated_at = 0] = [PreRows[i] EXCEPT !.updated_at = 0]

C2_Witness ==
    /\ last.op = "batch_again"
    /\ last.status = 200
    /\ Len(last.input) = 2
    /\ Len(PostRows) = 2
    /\ \E i \in DOMAIN PreRows : PostRows[i].updated_at # PreRows[i].updated_at

\* C7: the asset id of every record create and batch upsert return is
\* "{asset_type}_{unique_id}".
C7_AssetIdFormat ==
    (last.op \in {"create", "batch"} /\ last.status = 200)
        => \A i \in DOMAIN last.result :
               last.result[i].id = last.asset_type \o "_" \o last.result[i].unique_id

\* C8: a batch upsert updates the rows its records match (name, updated_at;
\* created_at kept), appends a row for every other unique id, leaves the
\* other rows alone and succeeds.
C8_BatchUpsertSemantics ==
    last.op = "batch"
        => /\ last.status = 200
           /\ Len(PostRows) = Len(PreRows) + Cardinality(InputIds \ UniqueIdsOf(PreRows))
           /\ \A i \in DOMAIN PreRows :
                  IF PreRows[i].unique_id \in InputIds
                  THEN /\ PostRows[i].unique_id = PreRows[i].unique_id
                       /\ PostRows[i].created_at = PreRows[i].created_at
                       /\ PostRows[i].name = LastNameFor(PreRows[i].unique_id)
                       /\ PostRows[i].updated_at \in WriteTimes
                  ELSE PostRows[i] = PreRows[i]
           /\ \A i \in DOMAIN PostRows :
                  i > Len(PreRows)
                      => /\ PostRows[i].unique_id \in InputIds
                         /\ PostRows[i].name = LastNameFor(PostRows[i].unique_id)
                         /\ PostRows[i].created_at \in WriteTimes
                         /\ PostRows[i].updated_at \in WriteTimes

PageCount(n, limit) == (n + limit - 1) \div limit

RECURSIVE ConcatPages(_, _, _, _)
ConcatPages(table, asset_type, limit, pages) ==
    IF pages = 0 THEN <<>>
    ELSE ConcatPages(table, asset_type, limit, pages - 1)
             \o list_assets_by_type(table, asset_type, pages, limit, "none")

\* C3: page p with limit L of a table of N rows is rows [(p-1)*L, min(p*L, N))
\* in table order, empty when (p-1)*L >= N; pages 1..ceil(N/L) concatenated are
\* the whole table and page ceil(N/L)+1 is empty.
C3_Pagination ==
    last.op = "list"
        => LET table == blobs[last.asset_type]
               n == Len(table.rows)
               lo == (last.page - 1) * last.limit
               hi == IF last.page * last.limit < n THEN last.page * last.limit ELSE n
           IN  /\ last.status = 200
               /\ lo >= n => last.result = <<>>
               /\ lo < n => last.result =
                      [i \in 1..(hi - lo) |-> AssetOfRow(last.asset_type, table.rows[lo + i])]
               /\ ConcatPages(table, last.asset_type, last.limit, PageCount(n, last.limit))
                      = [i \in 1..n |-> AssetOfRow(last.asset_type, table.rows[i])]
               /\ list_assets_by_type(table, last.asset_type,
                                       PageCount(n, last.limit) + 1, last.limit, "none") = <<>>

C3_Witness ==
    /\ last.op = "list"
    /\ Len(blobs[last.asset_type].rows) = 3
    /\ last.limit = 2
    /\ last.page = 2
    /\ Len(last.result) = 1

\* C4: when the remote batch call is rejected, the fallback makes one single
\* create per input record, in input order, whatever the earlier ones
\* answered; the call returns without error the records of the creates that
\* succeeded, in order, and these are the rows the table gained.
C4_FallbackCoverage ==
    (last.op = "service_batch" /\ last.remote_status \notin {0, 200})
        => /\ Len(last.attempts) = Len(last.input)
           /\ \A i \in DOMAIN last.attempts :
                  last.attempts[i].asset = FormattedAsset(last.input[i])
           /\ last.status = 200
           /\ LET ok == SelectSeq(last.attempts, LAMBDA a : a.status = 200)
              IN  /\ Len(last.result) = Len(ok)
                  /\ Len(PostRows) = Len(PreRows) + Len(ok)
                  /\ \A i \in DOMAIN ok :
                         /\ last.result[i].unique_id = ok[i].asset.unique_id
                         /\ last.result[i].name = ok[i].asset.name
                         /\ AssetOfRow(last.asset_type, PostRows[Len(PreRows) + i]) = last.result[i]

C4_Witness ==
    /\ last.op = "service_batch"
    /\ last.remote_status = 422
    /\ Len(last.input) = 2
    /\ last.attempts[1].status # 200
    /\ last.attempts[2].status = 200
    /\ Len(last.result) = 1

IncomingIds == ClientIdsOf(call.input)

ExistingIds == ClientIdsOf(call.pre)

\* C5: whatever the existing table holds, empty or absent included, a
\* batch_update_assets whose input has a unique id the table lacks fails
\* with the not-found error naming exactly the missing ids, writes nothing
\* and leaves the table as it was.
C5_MissingKeyDetection ==
    (call.op = "batch_update" /\ call.error # "read" /\ IncomingIds \ ExistingIds # {})
        => /\ call.error = "not_found"
           /\ call.named = IncomingIds \ ExistingIds
           /\ call.writes = 0
           /\ remote[call.asset_type].rows = call.pre

\* C6: a batch_create_assets whose incoming unique ids meet those of the
\* existing table fails, issues no write and leaves the table as it was;
\* once the table has been read the failure is the duplicate error and it
\* names every id of the intersection.
C6_DuplicatePreCheck ==
    (call.op = "batch_create" /\ IncomingIds \cap ExistingIds # {})
        => /\ call.error \in {"read", "duplicate"}
           /\ call.writes = 0
           /\ remote[call.asset_type].rows = call.pre
           /\ call.error = "duplicate" => call.named = IncomingIds \cap ExistingIds

C6_Witness ==
    /\ call.op = "batch_create"
    /\ call.error = "duplicate"
    /\ Cardinality(IncomingIds \cap ExistingIds) = 2
    /\ call.named = IncomingIds \cap ExistingIds

\* C11: a create, an update or a batch upsert that finds no table blob for
\* its asset type succeeds and leaves a table blob that holds exactly the
\* records of the request.
C11_ImplicitTableCreation ==
    (last.op \in {"create", "update", "batch"} /\ ~last.pre.exists)
        => /\ last.status = 200
           /\ blobs[last.asset_type].exists
           /\ UniqueIdsOf(PostRows) = InputIds

WriterIds(w) == {writers[w].input[i].unique_id : i \in DOMAIN writers[w].input}

\* C12: no version check, conditional write or lock: when two handlers both
\* read their table before either wrote and both answer 200, then on one
\* asset type the table is the one the second writer built from what it
\* read, so a record only the first writer carried is absent from it; on
\* two asset types each table holds its writer's records.
C12_LostUpdate ==
    \A w \in Writers, v \in Writers :
        (/\ w # v
         /\ writers[w].pc = "done" /\ writers[v].pc = "done"
         /\ writers[w].status = 200 /\ writers[v].status = 200
         /\ writers[w].order = 1 /\ writers[v].order = 2)
            => IF writers[w].asset_type = writers[v].asset_type
               THEN /\ blobs[writers[v].asset_type]
                           = WriterResponse(writers[v], blobs[writers[v].asset_type]).table
                    /\ UniqueIdsOf(blobs[writers[v].asset_type].rows)
                           = UniqueIdsOf(writers[v].df.rows) \cup WriterIds(v)
               ELSE /\ WriterIds(w) \subseteq UniqueIdsOf(blobs[writers[w].asset_type].rows)
                    /\ WriterIds(v) \subseteq UniqueIdsOf(blobs[writers[v].asset_type].rows)

C12_Witness ==
    /\ writers[1].pc = "done" /\ writers[2].pc = "done"
    /\ writers[1].status = 200 /\ writers[2].status = 200
    /\ writers[1].asset_type = writers[2].asset_type
    /\ writers[1].order = 1 /\ writers[2].order = 2
    /\ writers[1].input # <<>> /\ writers[2].input # <<>>
    /\ WriterIds(2) \subseteq UniqueIdsOf(blobs[writers[2].asset_type].rows)
    /\ WriterIds(1) \cap UniqueIdsOf(blobs[writers[1].asset_type].rows) = {}

\* C13: listing a type whose table blob is absent, or whose read from the
\* object store fails, answers an empty list and no error; a listing never
\* changes the table.
C13_ListSafeDefault ==
    last.op = "list"
        => /\ blobs[last.asset_type] = last.pre
           /\ (~last.pre.exists \/ last.fault = "get")
                  => (last.status = 200 /\ last.result = <<>>)

C13_Witness ==
    /\ last.op = "list"
    /\ last.fault = "get"
    /\ Len(last.pre.rows) = 2
    /\ last.page = 1
    /\ last.status = 200
    /\ last.result = <<>>

\* The metadata the client uploaded with the rows of each table.
ClientRowCountMatches == \A t \in AssetTypes : remote[t].row_count = Len(remote[t].rows)

\* C14: after every successful write to a table (create, update, batch
\* upsert of the store, write_assets of the client) the row_count kept with
\* the table is the number of rows of the blob just written.
C14_RowCountMatches ==
    /\ ClientRowCountMatches
    /\ (last.op \in {"create", "update", "batch", "batch_again"} /\ last.status = 200)
           => StoreRowCount(blobs[last.asset_type]) = Len(PostRows)

\* C15: a batch upsert with a record that fails validation skips that record
\* and still applies and persists every other record: on a table that holds
\* rows and with S3 answering, the call succeeds, gives one result per input
\* and every valid record's unique_id is in the table it leaves.
C15_BadRowSkipped ==
    (/\ last.op = "batch"
     /\ last.fault = "none"
     /\ PreRows # <<>>
     /\ \E i \in DOMAIN last.input : ~last.input[i].valid
     /\ \E i \in DOMAIN last.input : last.input[i].valid)
        => /\ last.status = 200
           /\ Len(last.result) = Len(last.input)
           /\ \A i \in DOMAIN last.input :
                  last.input[i].valid => last.input[i].unique_id \in UniqueIdsOf(PostRows)

\* C16: a successful batch upsert returns one result per input record, in
\* input order (result k carries the unique_id of input k), and each
\* result is a record of the table the call wrote, with the created_at and
\* updated_at of the stored row.
C16_BatchResults ==
    (last.op = "batch" /\ last.status = 200)
        => /\ Len(last.result) = Len(last.input)
           /\ \A k \in DOMAIN last.result :
                  /\ last.result[k].unique_id = last.input[k].unique_id
                  /\ \E j \in DOMAIN PostRows :
                         AssetOfRow(last.asset_type, PostRows[j]) = last.result[k]

\* C17: when the remote batch call is rejected and every single create of the
\* fallback fails too, the call ends in an error; it returns a list without
\* error only when some fallback create succeeded.
C17_AllFailedSurfaces ==
    (/\ last.op = "service_batch"
     /\ last.remote_status \notin {0, 200}
     /\ last.input # <<>>
     /\ \A i \in DOMAIN last.attempts : last.attempts[i].status # 200)
        => last.status # 200

\* C18: every failure of the remote batch call, an error status as well as
\* a transport failure (no response), makes the call fall back to one
\* single create per record and return without propagating that failure.
C18_EveryFailureFallsBack ==
    (last.op = "service_batch" /\ last.remote_status # 200 /\ last.input # <<>>)
        => /\ Len(last.attempts) = Len(last.input)
           /\ last.status = 200

\* C18 (amended): an error status of the remote batch call makes the call
\* fall back to one single create per record, and where one of them succeeds
\* the call returns its list without error; a transport failure of the batch
\* call is not retried: the caller gets an error (500) and no single create
\* is attempted.
C18_StatusFailureFallsBack ==
    last.op = "service_batch"
        => /\ last.remote_status \notin {0, 200}
                  => /\ Len(last.attempts) = Len(last.input)
                     /\ (\E i \in DOMAIN last.attempts : last.attempts[i].status = 200)
                            => (last.status = 200 /\ last.result # <<>>)
           /\ last.remote_status = 0
                  => (last.status = 500 /\ last.attempts = <<>> /\ last.result = <<>>)

C18_Witness ==
    /\ last.op = "service_batch"
    /\ last.remote_status = 0
    /\ Len(last.input) = 2
    /\ last.input[1].valid /\ last.input[2].valid
    /\ last.status = 500

DeletedIds == {call.input[i] : i \in DOMAIN call.input}

\* C19: whatever the existing table holds, empty included, a
\* batch_delete_assets whose ids are all in the table removes exactly the
\* rows with those ids, leaves the others as they were and returns the ids;
\* with an id the table lacks it fails with the not-found error naming every
\* missing id and writes nothing.
C19_BatchDelete ==
    (call.op = "batch_delete" /\ call.error \notin {"read", "write"})
        => IF DeletedIds \subseteq ExistingIds
           THEN /\ call.error = "none"
                /\ call.result = call.input
                /\ remote[call.asset_type].rows
                       = SelectSeq(call.pre, LAMBDA r : r.UniqueId \notin DeletedIds)
           ELSE /\ call.error = "not_found"
                /\ call.named = DeletedIds \ ExistingIds
                /\ call.writes = 0
                /\ remote[call.asset_type].rows = call.pre

AllClients == {clients.service} \cup {clients.storage[i] : i \in DOMAIN clients.storage}

\* C20: once the service has shut down, close() has run on every client it
\* created (the service's HTTP client and the DataLayerClient of every
\* Storage); close() runs at most once on a client, and no call is issued
\* through a client after its close().
C20_ClientRelease ==
    /\ clients.app = "stopped" => \A c \in AllClients : c.closes = 1
    /\ \A c \in AllClients : c.closes <= 1
    /\ \A c \in AllClients : c.late = 0

\* What GET /assets/{type} answers for type TypeOrder[i] with the default
\* page and limit, the read of its object going as last.input[i] says.
ListingOf(i) ==
    list_assets_by_type(blobs[TypeOrder[i]], TypeOrder[i], DefaultPage, DefaultLimit, last.input[i])

RECURSIVE ConcatListings(_)
ConcatListings(i) == IF i > Len(TypeOrder) THEN <<>> ELSE ListingOf(i) \o ConcatListings(i + 1)

\* C21: list_all_assets without a type filter returns the concatenation of
\* each type's listing, a type with no table or a failing read contributing
\* nothing and the call still answering 200; with a type filter it returns
\* what list_assets_by_type returns for that type.
C21_ListAll ==
    last.op = "list_all" =>
        /\ last.status = 200
        /\ last.asset_type = NoFilter => last.result = ConcatListings(1)
        /\ \A i \in DOMAIN TypeOrder :
               last.asset_type = TypeOrder[i] => last.result = ListingOf(i)

StoredBefore == InAssets(svc.ret.pre, svc.ret.asset_id)

\* C22: in the access service's asset store, get, update, delete, store-data
\* and get-data on an asset id that is not stored each fail with 404 "Asset
\* not found", make no call of the data layer and leave the store unchanged.
C22_NotStored ==
    (svc.ret.op \in {"get", "update", "delete", "store_data", "get_data"} /\ ~StoredBefore) =>
        /\ svc.ret.status = 404
        /\ svc.ret.detail = "Asset not found"
        /\ svc.ret.dl_calls = <<>>
        /\ svc.assets = svc.ret.pre

C22_Witness ==
    /\ svc.ret.op = "delete"
    /\ svc.ret.pre # <<>>
    /\ ~StoredBefore
    /\ svc.ret.status = 404

\* C23: deleting a stored asset calls the data layer's delete exactly once,
\* with the data-layer id derived from the asset's storage key, and afterwards
\* the asset id is not in the store; if the data-layer delete fails, the asset
\* is still in the store and the call reports an error.
C23_DeleteStored ==
    (svc.ret.op = "delete" /\ StoredBefore) =>
        /\ Len(svc.ret.dl_calls) = 1
        /\ svc.ret.dl_calls[1].method = "delete_asset"
        /\ LET asset == svc.ret.pre[IndexOfAsset(svc.ret.pre, svc.ret.asset_id)]
           IN  svc.ret.dl_calls[1].id = DataLayerIdOf(asset.storage_locations[1].s3_key)
        /\ svc.ret.status = 200 => ~InAssets(svc.assets, svc.ret.asset_id)
        /\ svc.ret.status # 200 =>
               /\ svc.ret.status >= 400
               /\ svc.assets = svc.ret.pre

Occurrences(seq, a) == Cardinality({i \in DOMAIN seq : seq[i] = a})

\* C24: listing the store with a type filter returns exactly the stored
\* assets of that type (none when no asset has it), without a filter every
\* stored asset exactly once; listing does not change the store.
C24_ListStore ==
    svc.ret.op = "list" =>
        /\ svc.ret.status = 200
        /\ svc.assets = svc.ret.pre
        /\ \A i \in DOMAIN svc.ret.pre :
               Occurrences(svc.ret.result, svc.ret.pre[i]) =
                   IF svc.ret.arg = NoFilter \/ svc.ret.pre[i].asset_type = svc.ret.arg
                   THEN 1 ELSE 0
        /\ \A j \in DOMAIN svc.ret.result : Occurrences(svc.ret.pre, svc.ret.result[j]) = 1

C24_Witness ==
    /\ svc.ret.op = "list"
    /\ svc.ret.arg = "vpc"
    /\ Len(svc.ret.pre) = 2
    /\ Len(svc.ret.result) = 1

\* C25: updating a stored asset changes only the fields the update supplies
\* (a field left unset keeps its value), keeps the asset's id and created_at,
\* sets updated_at, and leaves every other stored asset unchanged.
C25_UpdateFrame ==
    (svc.ret.op = "update" /\ StoredBefore) =>
        /\ Len(svc.assets) = Len(svc.ret.pre)
        /\ \A i \in DOMAIN svc.ret.pre :
               LET old == svc.ret.pre[i]
                   new == svc.assets[i]
               IN  IF old.id # svc.ret.asset_id THEN new = old
                   ELSE /\ new.id = old.id
                        /\ new.created_at = old.created_at
                        /\ new.asset_type = old.asset_type
                        /\ new.name = IF svc.ret.arg.name # NotSet
                                      THEN svc.ret.arg.name ELSE old.name
                        /\ new.description = IF svc.ret.arg.description # NotSet
                                             THEN svc.ret.arg.description ELSE old.description
                        /\ new.updated_at = svc.ret.arg.now

\* C30: over any sequence of create and delete calls on the store, the id
\* given to a newly created asset is not the id of an asset stored at that
\* time, and each successful create grows the store by exactly one asset.
C30_FreshId ==
    (svc.ret.op = "create" /\ svc.ret.status = 200) =>
        /\ ~InAssets(svc.ret.pre, svc.ret.result[1].id)
        /\ Len(svc.assets) = Len(svc.ret.pre) + 1

\* C26: after any sequence of create, update and batch upsert calls on a
\* type (a batch that repeats a unique_id within itself included), the table
\* holds at most one row per unique_id.
C26_UniqueUnderAllWrites ==
    \A t \in AssetTypes : Cardinality(UniqueIdsOf(blobs[t].rows)) = Len(blobs[t].rows)

StoredAssetIds == UNION {{blobs[t].rows[i].asset_id : i \in DOMAIN blobs[t].rows} : t \in AssetTypes}

\* C27: every sidecar metadata/{asset_id}.json belongs to a row of its type's
\* table; a create whose table read or table write fails leaves neither a row
\* nor a sidecar, and a failure to write the sidecar does not fail the create.
C27_NoOrphanSidecar ==
    /\ sidecars \subseteq StoredAssetIds
    /\ (last.op = "create" /\ last.fault \in {"get", "put"}) =>
           /\ last.status # 200
           /\ blobs[last.asset_type] = last.pre
    /\ (last.op = "create" /\ last.fault = "put_metadata") => last.status = 200

WrittenRows == remote[call.asset_type].rows

\* The last record of the input with the given UniqueId.
LastUpdateFor(u) ==
    LET hits == {i \in DOMAIN call.input : call.input[i].UniqueId = u}
    IN  call.input[CHOOSE i \in hits : \A j \in hits : j <= i]

SameCells(a, b) == a.UniqueId = b.UniqueId /\ a.value.text = b.value.text

\* C28: a successful batch_update_assets writes back a table with the same
\* unique ids as the table it read (no row dropped, added or duplicated);
\* rows whose id is not in the updates keep their values, rows whose id is in
\* the updates carry the updated values.
C28_UpdateKeepsKeys ==
    (call.op = "batch_update" /\ call.error = "none" /\ call.writes = 1) =>
        /\ ClientIdsOf(WrittenRows) = ClientIdsOf(call.pre)
        /\ Len(WrittenRows) = Len(call.pre)
        /\ \A i \in DOMAIN call.pre :
               call.pre[i].UniqueId \notin IncomingIds =>
                   Occurrences(WrittenRows, call.pre[i]) = Occurrences(call.pre, call.pre[i])
        /\ \A j \in DOMAIN WrittenRows :
               WrittenRows[j].UniqueId \in IncomingIds =>
                   SameCells(WrittenRows[j], LastUpdateFor(WrittenRows[j].UniqueId))

\* C29: a table written by a successful batch_create_assets has pairwise
\* distinct unique ids (a batch that repeats an id, or one sent against an
\* empty table, is rejected or written without duplicates); the table written
\* is the existing rows followed by the incoming rows and the incoming rows
\* are returned.
C29_CreateKeepsDistinct ==
    (call.op = "batch_create" /\ call.error = "none") =>
        /\ Cardinality(ClientIdsOf(WrittenRows)) = Len(WrittenRows)
        /\ Len(WrittenRows) = Len(call.pre) + Len(call.input)
        /\ \A i \in DOMAIN call.pre : WrittenRows[i] = call.pre[i]
        /\ \A i \in DOMAIN call.input :
               SameCells(WrittenRows[Len(call.pre) + i], call.input[i])
        /\ call.result = call.input

====
